---- MODULE Spec2Model ----
(***************************************************************************)
(* Model of osenco/mpesa-types: two clients of the Daraja HTTP API.        *)
(*                                                                         *)
(*   lib = "logic" : class Mpesa of src/unnamed/part_001, which calls the  *)
(*                   logic layer (src/unnamed/part_000, lines 43-372),     *)
(*                   which calls the request layer (src/src/api.ts).       *)
(*   lib = "axios" : default class Mpesa of src/src/mpesa.ts.              *)
(*                                                                         *)
(* JavaScript runs every continuation to completion, so an invocation is   *)
(* interleaved with others only where it waits for the network: an action  *)
(* is the code between two network boundaries.                             *)
(***************************************************************************)
EXTENDS Integers, Sequences, FiniteSets, TLC

\* ------------------------------------------------------------------ bounds
MaxOps == 2        \* invocations made on the client
MaxTime == 2       \* the clock stops advancing here
DayLen == 2        \* clock units per calendar day
MaxTTL == 2        \* largest expires_in the provider declares

Procs == 1..MaxOps

\* ------------------------------------------------------- strings and bytes
\* A JavaScript string that is encoded is a sequence of character codes.
\* undefined where a string is expected, and where an object is expected
Undefined == "<undefined>"
Nothing == [undefined |-> TRUE]

RECURSIVE DecStr(_)
\* `${n}` for a non-negative integer: its decimal digits.
DecStr(n) == IF n < 10 THEN <<48 + n>> ELSE DecStr(n \div 10) \o <<48 + (n % 10)>>

RECURSIVE Pad(_, _)
\* fixed-width, zero-padded decimal digits
Pad(n, w) == IF w = 0 THEN <<>> ELSE Pad(n \div 10, w - 1) \o <<48 + (n % 10)>>

\* the character of the base64 alphabet for a sextet; 64 stands for '='
B64Char(x) ==
  IF x < 26 THEN 65 + x
  ELSE IF x < 52 THEN 97 + (x - 26)
  ELSE IF x < 62 THEN 48 + (x - 52)
  ELSE IF x = 62 THEN 43
  ELSE IF x = 63 THEN 47
  ELSE 61

RECURSIVE Sextets(_)
\* three bytes make four sextets; a short last group is padded
Sextets(b) ==
  IF Len(b) = 0 THEN <<>>
  ELSE IF Len(b) = 1
    THEN <<b[1] \div 4, (b[1] % 4) * 16, 64, 64>>
  ELSE IF Len(b) = 2
    THEN <<b[1] \div 4, (b[1] % 4) * 16 + (b[2] \div 16), (b[2] % 16) * 4, 64>>
  ELSE <<b[1] \div 4, (b[1] % 4) * 16 + (b[2] \div 16),
         (b[2] % 16) * 4 + (b[3] \div 64), b[3] % 64>>
       \o Sextets(SubSeq(b, 4, Len(b)))

\* Buffer.from(s).toString('base64')
ToBase64(b) == LET x == Sextets(b) IN [i \in 1..Len(x) |-> B64Char(x[i])]

RECURSIVE BitOr(_, _)
\* a | b on non-negative 32-bit integers
BitOr(a, b) ==
  IF a = 0 THEN b
  ELSE IF b = 0 THEN a
  ELSE (IF a % 2 = 1 \/ b % 2 = 1 THEN 1 ELSE 0) + 2 * BitOr(a \div 2, b \div 2)

\* ------------------------------------------------------------- the clock
\* An instant is a number of clock units; day = t \div DayLen, the rest is
\* the time of day.
DayOf(t) == t \div DayLen
TimeOfDay(t) == t % DayLen
IsoWeekday(t) == (DayOf(t) % 7) + 1

\* a constructor that sets the expiry to the day after the construction
FormatDate_tomorrow(t) == [t |-> "string", day |-> DayOf(t) + 1]

\* date-fns format(new Date(), 'yyyy-MM-dd'): the calendar day only
FormatDate(t) == [t |-> "string", day |-> DayOf(t)]
\* moment(): the current instant
Moment(t) == [t |-> "moment", at |-> t]
\* the instant moment reads from a value: a date string is its day's midnight
ToInstant(d) == IF d.t = "string" THEN d.day * DayLen ELSE d.at
\* moment().isBefore(expiryDate)
isBefore(t, d) == t < ToInstant(d)
\* moment().add(expires_in, 'seconds')
MomentAdd(t, s) == Moment(t + s)
\* moment().format('YYYYMMDDHHmmss'): date then time of day, fixed width
FormatMoment(t) == Pad(DayOf(t), 2) \o Pad(TimeOfDay(t), 2)
\* date-fns format(new Date(), 'yyyyMMddHHiiss'): 'ii' is the ISO weekday,
\* so the minutes are replaced by the day of the week
FormatStk(t) == Pad(DayOf(t), 2) \o Pad(IsoWeekday(t), 2)
\* date-fns format(new Date(), 'yyyymmddhis'): minutes where the month
\* should be, 12-hour clock and weekday where the minutes should be
FormatQuery(t) == Pad(TimeOfDay(t), 2) \o Pad(DayOf(t), 2) \o Pad(IsoWeekday(t), 1)

\* ------------------------------------------------ configuration and inputs
Environments == {"sandbox", "production"}
Libs == {"logic", "axios"}

\* the shortcode and head office a client is configured with
Configs == { [shortcode |-> 714777, headoffice |-> 717477] }

consumerKey == "key"
consumerSecret == "secret"
passkey == <<112, 97, 115, 115>>              \* "pass"
initiatorPassword == <<112, 52, 53, 53, 119, 48, 114, 100>>   \* "p455w0rd"

\* what the provider may answer to a token request: a token and its lifetime
Tokens == {"T1", "T2"}
Grants ==
  { [access_token |-> "T1", expires_in |-> 1],
    [access_token |-> "T2", expires_in |-> MaxTTL] }
\* how a request may fail: the provider answers with a non-success status,
\* or no response arrives
StatusMessages == {"Unauthorized"}
Failures ==
  { [kind |-> "status", statusMessage |-> m] : m \in StatusMessages }
  \cup { [kind |-> "network", statusMessage |-> Undefined] }

\* the operations, in the order the classes declare them
OpSeq == << "mpesaExpressRequest", "mpesaExpressQuery", "c2bRegisterUrl",
            "c2bSimulateTransaction", "b2cPaymentRequest",
            "accountBalanceRequest", "transactionStatusRequest",
            "reversalRequest" >>
Ops == { OpSeq[i] : i \in 1..Len(OpSeq) }
IndexOf(o) == CHOOSE i \in 1..Len(OpSeq) : OpSeq[i] = o
\* the operation declared after o, the first one after the last
NextOp(o) == OpSeq[(IndexOf(o) % Len(OpSeq)) + 1]


\* arguments the callers pass; one value each, the claims do not depend on them
amount == 10
sender == 254712
recipient == 600000
transactionType == "CustomerPayBillOnline"
accountReference == "INV001"
transactionDescription == "Regular payment"
callbackUrl == "http://callbackurl.com"
validationUrl == "http://validationurl.com"
confirmationUrl == "http://confirmationurl.com"
responseType == "Completed"
billReference == "13123421"
checkoutRequestId == "ws_CO_1"
initiatorName == "initiator"
commandId == "BusinessPayment"
remarks == "Remarks"
occassion == "Occassion"
timeoutUrl == "http://timeouturl.com"
resultUrl == "http://resulturl.com"
identifierType == 4
transactionId == "MX000000000"

\* ------------------------------------------------- src/src/api.ts requests
\* a request layer that sends everything to the sandbox
getEnvPath_sandbox(environment) == "sandbox"

getEnvPath(environment) == IF environment = "production" THEN "api" ELSE "sandbox"

\* headers: { Authorization: `Bearer ${accessToken}` }
Bearer(accessToken) == [scheme |-> "Bearer", cred |-> accessToken]

api_generateToken(environment, key, secret) ==
  [ method |-> "GET", host |-> getEnvPath(environment),
    path |-> "/oauth/v1/generate",
    auth |-> [scheme |-> "Basic", user |-> key, pass |-> secret],
    qs |-> {"grant_type"}, body |-> <<>> ]

Post(host, path, accessToken, body) ==
  [ method |-> "POST", host |-> host, path |-> path,
    auth |-> Bearer(accessToken), qs |-> {}, body |-> body ]

api_mpesaExpressRequest(environment, accessToken, BusinessShortCode, Password, Timestamp, TransactionType, Amount, PartyA, PartyB, PhoneNumber, CallBackURL, AccountReference, TransactionDesc) ==
  Post(getEnvPath(environment), "/mpesa/stkpush/v1/processrequest", accessToken,
       [ AccountReference |-> AccountReference, Amount |-> Amount,
         BusinessShortCode |-> BusinessShortCode, CallBackURL |-> CallBackURL,
         PartyA |-> PartyA, PartyB |-> PartyB, Password |-> Password,
         PhoneNumber |-> PhoneNumber, Timestamp |-> Timestamp,
         TransactionDesc |-> TransactionDesc,
         TransactionType |-> TransactionType ])

api_mpesaExpressQuery(environment, accessToken, BusinessShortCode, Password, Timestamp, CheckoutRequestID) ==
  Post(getEnvPath(environment), "/mpesa/stkpushquery/v1/query", accessToken,
       [ BusinessShortCode |-> BusinessShortCode,
         CheckoutRequestID |-> CheckoutRequestID,
         Password |-> Password, Timestamp |-> Timestamp ])

api_c2bRegisterUrl(environment, accessToken, ValidationURL, ConfirmationURL, ResponseType, ShortCode) ==
  Post(getEnvPath(environment), "/mpesa/c2b/v1/registerurl", accessToken,
       [ ConfirmationURL |-> ConfirmationURL, ResponseType |-> ResponseType,
         ShortCode |-> ShortCode, ValidationURL |-> ValidationURL ])

api_c2bSimulateTransaction(accessToken, CommandID, Amount, Msisdn, BillRefNumber, ShortCode) ==
  Post("sandbox", "/mpesa/c2b/v1/simulate", accessToken,
       [ Amount |-> Amount, BillRefNumber |-> BillRefNumber,
         CommandID |-> CommandID, Msisdn |-> Msisdn, ShortCode |-> ShortCode ])

api_b2cPaymentRequest(environment, accessToken, InitiatorName, SecurityCredential, CommandID, Amount, PartyA, PartyB, Remarks, QueueTimeOutURL, ResultURL, Occassion) ==
  Post(getEnvPath(environment), "/mpesa/b2c/v1/paymentrequest", accessToken,
       [ Amount |-> Amount, CommandID |-> CommandID,
         InitiatorName |-> InitiatorName, Occassion |-> Occassion,
         PartyA |-> PartyA, PartyB |-> PartyB,
         QueueTimeOutURL |-> QueueTimeOutURL, Remarks |-> Remarks,
         ResultURL |-> ResultURL, SecurityCredential |-> SecurityCredential ])

api_accountBalanceRequest(environment, accessToken, CommandID, PartyA, IdentifierType, Remarks, Initiator, SecurityCredential, QueueTimeOutURL, ResultURL) ==
  Post(getEnvPath(environment), "/mpesa/accountbalance/v1/query", accessToken,
       [ CommandID |-> CommandID, IdentifierType |-> IdentifierType,
         Initiator |-> Initiator, PartyA |-> PartyA,
         QueueTimeOutURL |-> QueueTimeOutURL, Remarks |-> Remarks,
         ResultURL |-> ResultURL, SecurityCredential |-> SecurityCredential ])

api_transactionStatusRequest(environment, accessToken, CommandID, PartyA, IdentifierType, Remarks, Initiator, SecurityCredential, QueueTimeOutURL, ResultURL, TransactionID, Occasion) ==
  Post(getEnvPath(environment), "/mpesa/transactionstatus/v1/query", accessToken,
       [ CommandID |-> CommandID, IdentifierType |-> IdentifierType,
         Initiator |-> Initiator, Occasion |-> Occasion, PartyA |-> PartyA,
         QueueTimeOutURL |-> QueueTimeOutURL, Remarks |-> Remarks,
         ResultURL |-> ResultURL, SecurityCredential |-> SecurityCredential,
         TransactionID |-> TransactionID ])

api_reversalRequest(environment, accessToken, CommandID, ReceiverParty, ReceiverIdentifierType, Remarks, Initiator, SecurityCredential, QueueTimeOutURL, ResultURL, TransactionID, Occasion) ==
  Post(getEnvPath(environment), "/mpesa/reversal/v1/request", accessToken,
       [ CommandID |-> CommandID, Initiator |-> Initiator,
         Occasion |-> Occasion, QueueTimeOutURL |-> QueueTimeOutURL,
         ReceiverIdentifierType |-> ReceiverIdentifierType,
         ReceiverParty |-> ReceiverParty, Remarks |-> Remarks,
         ResultURL |-> ResultURL, SecurityCredential |-> SecurityCredential,
         TransactionID |-> TransactionID ])

\* ------------------------------------- src/unnamed/part_000: the logic layer
\* A call either throws before it reaches the network or issues one POST.
Throws(message) == [throws |-> TRUE, message |-> message]
Issues(request) == [throws |-> FALSE, request |-> request]

\* crypto.publicEncrypt(readFileSync(`${environment}.cer`), password) in
\* base64: an opaque ciphertext of the password under that certificate
generateSecurityCredential(environment, password) ==
  [t |-> "rsa", cer |-> environment, of |-> password]

\* what reading or using the certificate throws when it cannot be loaded
CertError == "ENOENT: no such file or directory"

\* Buffer.from(`${shortcode}${passkey}${timestamp}`).toString('base64')
derivePassword(shortcode, key, timestamp) ==
  ToBase64(DecStr(shortcode) \o key \o timestamp)

logic_mpesaExpressRequest(environment, accessToken, shortcode, key, t) ==
  LET timestamp == FormatMoment(t)
  IN Issues(api_mpesaExpressRequest(environment, accessToken, shortcode,
              derivePassword(shortcode, key, timestamp), timestamp,
              transactionType, amount, sender, recipient, sender, callbackUrl,
              accountReference, transactionDescription))

logic_mpesaExpressQuery(environment, accessToken, shortcode, key, t) ==
  LET timestamp == FormatMoment(t)
  IN Issues(api_mpesaExpressQuery(environment, accessToken, shortcode,
              derivePassword(shortcode, key, timestamp), timestamp,
              checkoutRequestId))

logic_c2bRegisterUrl(environment, accessToken, shortcode) ==
  Issues(api_c2bRegisterUrl(environment, accessToken, validationUrl,
                            confirmationUrl, responseType, shortcode))

logic_c2bSimulateTransaction(environment, accessToken, shortcode) ==
  IF environment # "sandbox"
    THEN Throws("Cannot simulate on production environment")
    ELSE Issues(api_c2bSimulateTransaction(accessToken, "CustomerPayBillOnline",
                                           amount, sender, billReference,
                                           shortcode))

logic_b2cPaymentRequest(environment, accessToken, shortcode, cert) ==
  IF ~cert THEN Throws(CertError)
  ELSE Issues(api_b2cPaymentRequest(environment, accessToken, initiatorName,
                generateSecurityCredential(environment, initiatorPassword),
                commandId, amount, shortcode, recipient, remarks, timeoutUrl,
                resultUrl, occassion))

logic_accountBalanceRequest(environment, accessToken, shortcode, cert) ==
  IF ~cert THEN Throws(CertError)
  ELSE Issues(api_accountBalanceRequest(environment, accessToken,
                "AccountBalance", shortcode, identifierType, remarks,
                initiatorName,
                generateSecurityCredential(environment, initiatorPassword),
                timeoutUrl, resultUrl))

logic_transactionStatusRequest(environment, accessToken, shortcode, cert) ==
  IF ~cert THEN Throws(CertError)
  ELSE Issues(api_transactionStatusRequest(environment, accessToken,
                "TransactionStatusQuery", shortcode, identifierType, remarks,
                initiatorName,
                generateSecurityCredential(environment, initiatorPassword),
                timeoutUrl, resultUrl, transactionId, occassion))

logic_reversalRequest(environment, accessToken, shortcode, cert) ==
  IF ~cert THEN Throws(CertError)
  ELSE Issues(api_reversalRequest(environment, accessToken,
                "TransactionReversal", shortcode, 11, remarks, initiatorName,
                generateSecurityCredential(environment, initiatorPassword),
                timeoutUrl, resultUrl, transactionId, occassion))

\* the logic call each method of class Mpesa (part_001) makes after its token
\* step
LogicCall(op, environment, accessToken, shortcode, t, cert) ==
  CASE op = "mpesaExpressRequest" ->
         logic_mpesaExpressRequest(environment, accessToken, shortcode, passkey, t)
    [] op = "mpesaExpressQuery" ->
         logic_mpesaExpressQuery(environment, accessToken, shortcode, passkey, t)
    [] op = "c2bRegisterUrl" ->
         logic_c2bRegisterUrl(environment, accessToken, shortcode)
    [] op = "c2bSimulateTransaction" ->
         logic_c2bSimulateTransaction(environment, accessToken, shortcode)
    [] op = "b2cPaymentRequest" ->
         logic_b2cPaymentRequest(environment, accessToken, shortcode, cert)
    [] op = "accountBalanceRequest" ->
         logic_accountBalanceRequest(environment, accessToken, shortcode, cert)
    [] op = "transactionStatusRequest" ->
         logic_transactionStatusRequest(environment, accessToken, shortcode, cert)
    [] op = "reversalRequest" ->
         logic_reversalRequest(environment, accessToken, shortcode, cert)


\* the destructuring of a response: a key the response lacks reads undefined
Get(data, key) == IF key \in DOMAIN data THEN data[key] ELSE Undefined

\* what each logic function returns from the provider's response
MapResponse(op, data) ==
  CASE op = "mpesaExpressRequest" ->
         [ merchantRequestId |-> Get(data, "MerchantRequestID"),
           checkoutRequestId |-> Get(data, "CheckoutRequestID") ]
    [] op = "mpesaExpressQuery" ->
         [ resultCode |-> Get(data, "ResultCode"),
           resultDescription |-> Get(data, "ResultDesc") ]
    [] op = "c2bRegisterUrl" ->
         [ responseDescription |-> Get(data, "ResponseDescription") ]
    [] op = "c2bSimulateTransaction" ->
         [ conversationId |-> Get(data, "ConversationID"),
           originatorConversationId |-> Get(data, "OriginatorCoversationID"),
           responseDescription |-> Get(data, "ResponseDescription") ]
    [] OTHER ->
         [ conversationId |-> Get(data, "ConversationID"),
           originatorConversationId |-> Get(data, "OriginatorConversationID"),
           responseDescription |-> Get(data, "ResponseDescription") ]

\* the provider's success responses: the documented fields of each endpoint
ProviderResponses(op) ==
  CASE op = "mpesaExpressRequest" ->
         { [MerchantRequestID |-> "X", CheckoutRequestID |-> "Y"] }
    [] op = "mpesaExpressQuery" ->
         { [ResultCode |-> "0", ResultDesc |-> "done"] }
    [] op = "c2bRegisterUrl" ->
         { [ResponseDescription |-> "success"] }
    [] op = "c2bSimulateTransaction" ->
         { [ConversationID |-> "C", OriginatorConversationID |-> "O",
            ResponseDescription |-> "accepted"] }
    [] OTHER ->
         { [ConversationID |-> "C", OriginatorConversationID |-> "O",
            ResponseDescription |-> "accepted"] }

\* ----------------------------------------------------------- JS coercions
\* `${v}` of a value
ToStr(v) ==
  CASE v.t = "object" -> "[object Object]"
    [] v.t = "error" -> "Error: " \o v.message
    [] v.t = "string" -> v.v
\* if (v)
Truthy(v) == ~(v.t = "string" /\ v.v = "")

DarajaError(message) == [name |-> "DarajaError", message |-> message]

\* the message of the error api.generateToken throws for a failed request:
\* error.response.statusMessage, or the TypeError of reading it when the
\* request got no response
TokenErrorMessage(f) ==
  IF f.kind = "status" THEN f.statusMessage
  ELSE "Cannot read property 'statusMessage' of undefined"

\* error.message of a POST that request-promise rejected, which the api
\* function throws again as new Error(error.message)
PostErrorMessage(f) ==
  IF f.kind = "status" THEN "401 - " \o f.statusMessage
  ELSE "Error: ECONNREFUSED"

Pending == [state |-> "pending"]
Fulfilled(v) == [state |-> "fulfilled", value |-> v]
Rejected(e) == [state |-> "rejected", reason |-> e]

\* ------------------------------------------------------------------- state
VARIABLES
  lib,            \* which client class is in use
  environment,    \* constructor argument / config.env
  config,         \* shortcode and head office
  certOk,         \* the environment's certificate can be read and used
  now,            \* the clock
  accessToken,    \* part_001: this.accessToken
  expiryDate,     \* part_001: this.expiryDate
  authorization,  \* mpesa.ts: http.defaults.headers.common.Authorization
  pc,             \* where each invocation is
  op,             \* the operation each invocation runs
  local,          \* the result of each invocation's token step
  stamp,          \* mpesa.ts stkPush: the timestamp taken at the call
  promise,        \* the promise each invocation returned to its caller
  http,           \* the requests each invocation has issued, in order
  tokenReply,     \* what came back for each invocation's token request
  postReply,      \* what came back for each invocation's POST
  lastFetch,      \* the invocation that stored a fetched token last
  grantedUntil    \* the provider's side: when the last granted token lapses

vars == << lib, environment, config, certOk, now, accessToken, expiryDate,
           authorization, pc, op, local, stamp, promise, http, tokenReply,
           postReply, lastFetch, grantedUntil >>

NoHeader == [scheme |-> "none", cred |-> ""]
NoToken == [t |-> "none"]
NoReply == [arrived |-> FALSE]
ReplyOk(data) == [arrived |-> TRUE, ok |-> TRUE, data |-> data]
ReplyFailed(f) == [arrived |-> TRUE, ok |-> FALSE, failure |-> f]

\* A client right after construction, at any time of day; a client of
\* mpesa.ts after configure() was called on it.  When the certificate cannot
\* be used, configure() has assigned this.config and this.path and has thrown
\* before it assigns this.credential.
Init ==
  /\ lib \in Libs
  /\ environment \in Environments
  /\ config \in Configs
  /\ certOk \in BOOLEAN
  /\ now \in 0..MaxTime
  /\ accessToken = ""
  /\ expiryDate = FormatDate(now)
  /\ authorization = NoHeader
  /\ pc = [p \in Procs |-> "idle"]
  /\ op = [p \in Procs |-> "none"]
  /\ local = [p \in Procs |-> NoToken]
  /\ stamp = [p \in Procs |-> <<>>]
  /\ promise = [p \in Procs |-> Pending]
  /\ http = [p \in Procs |-> <<>>]
  /\ tokenReply = [p \in Procs |-> NoReply]
  /\ postReply = [p \in Procs |-> NoReply]
  /\ lastFetch = 0
  /\ grantedUntil = 0

\* Invocations are numbered in the order they are made.  A run starts with
\* any operation and goes on with the operations declared after it:
\* invocations meet only in the token cache, which every method handles with
\* the same lines.
Next_idle(p, o) ==
  /\ pc[p] = "idle"
  /\ IF p = 1 THEN TRUE ELSE pc[p - 1] # "idle" /\ o = NextOp(op[p - 1])

Tick ==
  /\ now < MaxTime
  /\ now' = now + 1
  /\ UNCHANGED << lib, environment, config, certOk, accessToken, expiryDate,
                  authorization, pc, op, local, stamp, promise, http,
                  tokenReply, postReply, lastFetch, grantedUntil >>

\* ------------------------------------ src/unnamed/part_001: class Mpesa
\* a token step that still takes the token at the instant it expires
TokenIsValid_orEqual(t, expiry) == t <= ToInstant(expiry)

\* logic.generateToken asks nobody while the clock is before the expiry
TokenIsValid(t, expiry) == isBefore(t, expiry)

\* what logic.generateToken returns
TokenPair(token, expiry) == [t |-> "pair", accessToken |-> token, expiryDate |-> expiry]

\* a client that keeps the first token it stored
Stored_first(pair, token, expiry) ==
  IF token # "" THEN [accessToken |-> token, expiryDate |-> expiry]
  ELSE [accessToken |-> pair.accessToken, expiryDate |-> pair.expiryDate]

\* a client that takes the token of the pair and keeps an expiry it has
Stored_mixed(pair, token, expiry) ==
  [ accessToken |-> pair.accessToken,
    expiryDate |-> IF token # "" THEN expiry ELSE pair.expiryDate ]

\* what the method stores of the pair its token step returned
Stored(pair, token, expiry) == [accessToken |-> pair.accessToken, expiryDate |-> pair.expiryDate]

\* a method that sends its POST a second time
AfterToken_twice(p, o, pair) ==
  LET r == LogicCall(o, environment, pair.accessToken, config.shortcode, now, certOk)
  IN /\ local' = [local EXCEPT ![p] = pair]
     /\ accessToken' = pair.accessToken
     /\ expiryDate' = pair.expiryDate
     /\ promise' = IF r.throws
                     THEN [promise EXCEPT ![p] = Rejected(DarajaError(r.message))]
                     ELSE promise
     /\ pc' = [pc EXCEPT ![p] = IF r.throws THEN "done" ELSE "post"]
     /\ http' = IF r.throws THEN http
                ELSE [http EXCEPT ![p] = Append(Append(@, r.request), r.request)]

\* a method that makes the logic call with the token the cache held before
\* it stores the pair
AfterToken_stale(p, o, pair) ==
  LET r == LogicCall(o, environment, accessToken, config.shortcode, now, certOk)
      w == Stored(pair, accessToken, expiryDate)
  IN /\ local' = [local EXCEPT ![p] = pair]
     /\ accessToken' = w.accessToken
     /\ expiryDate' = w.expiryDate
     /\ IF r.throws
          THEN /\ promise' = [promise EXCEPT ![p] = Rejected(DarajaError(r.message))]
               /\ pc' = [pc EXCEPT ![p] = "done"]
               /\ http' = http
          ELSE /\ promise' = promise
               /\ pc' = [pc EXCEPT ![p] = "post"]
               /\ http' = [http EXCEPT ![p] = Append(@, r.request)]

\* The rest of a method once its token step has returned pair: it stores the
\* pair, then makes the logic call, which throws (the method rejects) or
\* issues the POST.
AfterToken(p, o, pair) ==
  LET r == LogicCall(o, environment, pair.accessToken, config.shortcode, now, certOk)
      w == Stored(pair, accessToken, expiryDate)
  IN /\ local' = [local EXCEPT ![p] = pair]
     /\ accessToken' = w.accessToken
     /\ expiryDate' = w.expiryDate
     /\ IF r.throws
          THEN /\ promise' = [promise EXCEPT ![p] = Rejected(DarajaError(r.message))]
               /\ pc' = [pc EXCEPT ![p] = "done"]
               /\ http' = http
          ELSE /\ promise' = promise
               /\ pc' = [pc EXCEPT ![p] = "post"]
               /\ http' = [http EXCEPT ![p] = Append(@, r.request)]

\* A method is called.  logic.generateToken returns the cached pair while
\* the clock is before the expiry, and otherwise asks the provider.
Call(p, o) ==
  /\ lib = "logic"
  /\ Next_idle(p, o)
  /\ op' = [op EXCEPT ![p] = o]
  /\ IF TokenIsValid(now, expiryDate)
       THEN AfterToken(p, o, TokenPair(accessToken, expiryDate))
       ELSE /\ http' = [http EXCEPT ![p] = Append(@,
                          api_generateToken(environment, consumerKey, consumerSecret))]
            /\ pc' = [pc EXCEPT ![p] = "token"]
            /\ UNCHANGED << accessToken, expiryDate, promise, local >>
  /\ UNCHANGED << lib, environment, config, certOk, now, authorization, stamp,
                  tokenReply, postReply, lastFetch, grantedUntil >>

\* a token step that forgets the declared lifetime
NewPair_noTTL(t, access_token, expires_in) == TokenPair(access_token, Moment(t))

\* the pair logic.generateToken builds from the provider's response
NewPair(t, access_token, expires_in) ==
  TokenPair(access_token, MomentAdd(t, expires_in))

\* The token request succeeds: the method stores the new pair and goes on.
TokenOk(p) ==
  /\ lib = "logic"
  /\ pc[p] = "token"
  /\ \E g \in Grants :
       /\ tokenReply' = [tokenReply EXCEPT ![p] = ReplyOk(g)]
       /\ grantedUntil' = now + g.expires_in
       /\ AfterToken(p, op[p], NewPair(now, g.access_token, g.expires_in))
  /\ lastFetch' = p
  /\ UNCHANGED << lib, environment, config, certOk, now, authorization, op,
                  stamp, postReply >>

\* a method that pushes the expiry forward when its token request fails
TokenFail_stores(p) ==
  /\ lib = "logic"
  /\ pc[p] = "token"
  /\ \E f \in Failures :
       /\ tokenReply' = [tokenReply EXCEPT ![p] = ReplyFailed(f)]
       /\ promise' = [promise EXCEPT ![p] = Rejected(DarajaError(TokenErrorMessage(f)))]
       /\ local' = [local EXCEPT ![p] = [t |-> "error", message |-> TokenErrorMessage(f)]]
  /\ pc' = [pc EXCEPT ![p] = "done"]
  /\ expiryDate' = MomentAdd(now, 1)
  /\ UNCHANGED << lib, environment, config, certOk, now, accessToken,
                  authorization, op, stamp, http, postReply,
                  lastFetch, grantedUntil >>

\* The token request fails: the method rejects with DarajaError(error.message).
TokenFail(p) ==
  /\ lib = "logic"
  /\ pc[p] = "token"
  /\ \E f \in Failures :
       /\ tokenReply' = [tokenReply EXCEPT ![p] = ReplyFailed(f)]
       /\ promise' = [promise EXCEPT ![p] = Rejected(DarajaError(TokenErrorMessage(f)))]
       /\ local' = [local EXCEPT ![p] = [t |-> "error", message |-> TokenErrorMessage(f)]]
  /\ pc' = [pc EXCEPT ![p] = "done"]
  /\ UNCHANGED << lib, environment, config, certOk, now, accessToken,
                  expiryDate, authorization, op, stamp, http, postReply,
                  lastFetch, grantedUntil >>

\* The POST succeeds: the method resolves with the mapped fields.
PostOk(p) ==
  /\ lib = "logic"
  /\ pc[p] = "post"
  /\ \E data \in ProviderResponses(op[p]) :
       /\ postReply' = [postReply EXCEPT ![p] = ReplyOk(data)]
       /\ promise' = [promise EXCEPT ![p] = Fulfilled(MapResponse(op[p], data))]
  /\ pc' = [pc EXCEPT ![p] = "done"]
  /\ UNCHANGED << lib, environment, config, certOk, now, accessToken,
                  expiryDate, authorization, op, local, stamp, http,
                  tokenReply, lastFetch, grantedUntil >>

\* The POST fails: the method rejects with DarajaError(error.message).
PostFail(p) ==
  /\ lib = "logic"
  /\ pc[p] = "post"
  /\ \E f \in Failures :
       /\ postReply' = [postReply EXCEPT ![p] = ReplyFailed(f)]
       /\ promise' = [promise EXCEPT ![p] = Rejected(DarajaError(PostErrorMessage(f)))]
  /\ pc' = [pc EXCEPT ![p] = "done"]
  /\ UNCHANGED << lib, environment, config, certOk, now, accessToken,
                  expiryDate, authorization, op, local, stamp, http,
                  tokenReply, lastFetch, grantedUntil >>

\* ------------------------------------- src/src/mpesa.ts: default class Mpesa
\* configure(): this.path
configure_path(env) == IF env = "production" THEN "api" ELSE "sandbox"
\* what configure() throws when the certificate cannot be used: the error of
\* fs.readFileSync or crypto.publicEncrypt as it is
configure_error == [name |-> "Error", message |-> CertError]
\* configure(): this.credential, the initiator password under `${env}.cer`;
\* undefined when configure() threw before the assignment
configure_credential(env, cert) ==
  IF cert THEN [t |-> "rsa", cer |-> env, of |-> initiatorPassword]
  ELSE [t |-> "undefined"]

\* e.message of a rejected axios call
AxiosErrorMessage(f) ==
  IF f.kind = "status" THEN "Request failed with status code 401"
  ELSE "Network Error"

getToken_request(path) ==
  [ method |-> "GET", host |-> path, path |-> "/oauth/v1/generate",
    auth |-> [scheme |-> "Basic", user |-> consumerKey, pass |-> consumerSecret],
    qs |-> {}, body |-> <<>> ]

\* this.http.post(url, body): the instance's default headers go with it
AxPost(host, path, header, body) ==
  [ method |-> "POST", host |-> host, path |-> path, auth |-> header,
    qs |-> {}, body |-> body ]

stkPush(path, header, cfg, timestamp) ==
  AxPost(path, "/mpesa/stkpush/v1/processrequest", header,
         [ AccountReference |-> accountReference, Amount |-> amount,
           BusinessShortCode |-> cfg.shortcode, CallBackURL |-> callbackUrl,
           PartyA |-> sender,
           PartyB |-> BitOr(cfg.headoffice, cfg.shortcode),
           Password |-> ToBase64(DecStr(cfg.shortcode) \o passkey \o timestamp),
           PhoneNumber |-> sender, Timestamp |-> timestamp,
           TransactionDesc |-> transactionDescription,
           TransactionType |-> IF identifierType = 4
                                 THEN "CustomerPayBillOnline"
                                 ELSE "CustomerBuyGoodsOnline" ])

expressQuery(path, header, cfg, t) ==
  AxPost(path, "/mpesa/stkpushquery/v1/query", header,
         [ BusinessShortCode |-> cfg.shortcode,
           CheckoutRequestID |-> checkoutRequestId,
           Password |-> initiatorPassword,
           Timestamp |-> FormatQuery(t) ])

registerUrls(path, header, cfg) ==
  AxPost(path, "/mpesa/c2b/v1/registerurl", header,
         [ ConfirmationURL |-> confirmationUrl, ResponseType |-> responseType,
           ShortCode |-> cfg.shortcode, ValidationURL |-> validationUrl ])

simulateC2B(header, cfg) ==
  AxPost("sandbox", "/mpesa/c2b/v1/simulate", header,
         [ Amount |-> amount, BillRefNumber |-> billReference,
           CommandID |-> "CustomerPayBillOnline", Msisdn |-> sender,
           ShortCode |-> cfg.shortcode ])

b2cPayment(path, header, cfg, credential) ==
  AxPost(path, "/mpesa/b2c/v1/paymentrequest", header,
         [ Amount |-> amount, CommandID |-> commandId,
           InitiatorName |-> initiatorName, Occassion |-> occassion,
           PartyA |-> cfg.shortcode, PartyB |-> sender,
           QueueTimeOutURL |-> timeoutUrl, Remarks |-> remarks,
           ResultURL |-> resultUrl, SecurityCredential |-> credential ])

checkBalance(path, header, cfg, credential) ==
  AxPost(path, "/mpesa/accountbalance/v1/query", header,
         [ CommandID |-> "AccountBalance", IdentifierType |-> identifierType,
           Initiator |-> initiatorName, PartyA |-> cfg.shortcode,
           QueueTimeOutURL |-> timeoutUrl, Remarks |-> remarks,
           ResultURL |-> resultUrl, SecurityCredential |-> credential ])

checkStatus(path, header, cfg, credential) ==
  AxPost(path, "/mpesa/transactionstatus/v1/query", header,
         [ CommandID |-> "TransactionStatusQuery", Occasion |-> occassion,
           TransactionID |-> transactionId, IdentifierType |-> identifierType,
           Initiator |-> initiatorName, PartyA |-> cfg.shortcode,
           QueueTimeOutURL |-> timeoutUrl, Remarks |-> remarks,
           ResultURL |-> resultUrl, SecurityCredential |-> credential ])

reverse(path, header, cfg, credential) ==
  AxPost(path, "/mpesa/reversal/v1/request", header,
         [ CommandID |-> "TransactionReversal", Occasion |-> occassion,
           TransactionID |-> transactionId, IdentifierType |-> identifierType,
           Initiator |-> initiatorName, PartyA |-> cfg.shortcode,
           QueueTimeOutURL |-> timeoutUrl, Remarks |-> remarks,
           ResultURL |-> resultUrl, ReceiverIdentifierType |-> 11,
           ReceiverParty |-> sender, SecurityCredential |-> credential ])

\* the POST the callback passed to getToken().then builds; operations are
\* named as in part_001, the comment gives the method of mpesa.ts
ThenPost(o, path, header, cfg, credential, timestamp, t) ==
  CASE o = "mpesaExpressRequest" -> stkPush(path, header, cfg, timestamp)
    [] o = "mpesaExpressQuery" -> expressQuery(path, header, cfg, t)
    [] o = "c2bRegisterUrl" -> registerUrls(path, header, cfg)
    [] o = "c2bSimulateTransaction" -> simulateC2B(header, cfg)
    [] o = "b2cPaymentRequest" -> b2cPayment(path, header, cfg, credential)
    [] o = "accountBalanceRequest" -> checkBalance(path, header, cfg, credential)
    [] o = "transactionStatusRequest" -> checkStatus(path, header, cfg, credential)
    [] o = "reversalRequest" -> reverse(path, header, cfg, credential)

\* A method is called: it starts getToken(), does not wait for the chain it
\* hangs on it, and returns, so its promise is fulfilled with undefined.
AxCall(p, o) ==
  /\ lib = "axios"
  /\ Next_idle(p, o)
  /\ op' = [op EXCEPT ![p] = o]
  /\ stamp' = [stamp EXCEPT ![p] =
                 IF o = "mpesaExpressRequest" THEN FormatStk(now) ELSE <<>>]
  /\ http' = [http EXCEPT ![p] = Append(@, getToken_request(configure_path(environment)))]
  /\ promise' = [promise EXCEPT ![p] = Fulfilled(Nothing)]
  /\ pc' = [pc EXCEPT ![p] = "token"]
  /\ UNCHANGED << lib, environment, config, certOk, now, accessToken,
                  expiryDate, authorization, local, tokenReply, postReply,
                  lastFetch, grantedUntil >>

\* getToken() settles with token: the response data, or the error that
\* .catch((e) => e) turned into a value.  A truthy token becomes the default
\* Authorization header, and the callback issues the POST.
getToken_then(p, token) ==
  LET header == IF Truthy(token) THEN Bearer(ToStr(token)) ELSE authorization
      post == ThenPost(op[p], configure_path(environment), header, config,
                       configure_credential(environment, certOk), stamp[p], now)
  IN /\ authorization' = header
     /\ local' = [local EXCEPT ![p] = token]
     /\ http' = [http EXCEPT ![p] = Append(@, post)]
     /\ pc' = [pc EXCEPT ![p] = "post"]
     /\ lastFetch' = p
     /\ UNCHANGED << lib, environment, config, certOk, now, accessToken,
                     expiryDate, op, stamp, promise, postReply >>

AxTokenOk(p) ==
  /\ lib = "axios"
  /\ pc[p] = "token"
  /\ \E g \in Grants :
       /\ tokenReply' = [tokenReply EXCEPT ![p] = ReplyOk(g)]
       /\ grantedUntil' = now + g.expires_in
       /\ getToken_then(p, [t |-> "object", access_token |-> g.access_token,
                            expires_in |-> g.expires_in])

AxTokenFail(p) ==
  /\ lib = "axios"
  /\ pc[p] = "token"
  /\ \E f \in Failures :
       /\ tokenReply' = [tokenReply EXCEPT ![p] = ReplyFailed(f)]
       /\ grantedUntil' = grantedUntil
       /\ getToken_then(p, [t |-> "error", message |-> AxiosErrorMessage(f)])

\* The POST settles: the callback's return value, or its rejection, belongs
\* to a promise nobody holds.
AxPostOk(p) ==
  /\ lib = "axios"
  /\ pc[p] = "post"
  /\ \E data \in ProviderResponses(op[p]) :
       postReply' = [postReply EXCEPT ![p] = ReplyOk(data)]
  /\ pc' = [pc EXCEPT ![p] = "done"]
  /\ UNCHANGED << lib, environment, config, certOk, now, accessToken,
                  expiryDate, authorization, op, local, stamp, promise, http,
                  tokenReply, lastFetch, grantedUntil >>

AxPostFail(p) ==
  /\ lib = "axios"
  /\ pc[p] = "post"
  /\ \E f \in Failures :
       postReply' = [postReply EXCEPT ![p] = ReplyFailed(f)]
  /\ pc' = [pc EXCEPT ![p] = "done"]
  /\ UNCHANGED << lib, environment, config, certOk, now, accessToken,
                  expiryDate, authorization, op, local, stamp, promise, http,
                  tokenReply, lastFetch, grantedUntil >>

\* ------------------------------------------------------- specifications
NextLogic ==
  \/ Tick
  \/ \E p \in Procs, o \in Ops : Call(p, o)
  \/ \E p \in Procs : TokenOk(p)
  \/ \E p \in Procs : TokenFail(p)
  \/ \E p \in Procs : PostOk(p)
  \/ \E p \in Procs : PostFail(p)

NextAxios ==
  \/ Tick
  \/ \E p \in Procs, o \in Ops : AxCall(p, o)
  \/ \E p \in Procs : AxTokenOk(p)
  \/ \E p \in Procs : AxTokenFail(p)
  \/ \E p \in Procs : AxPostOk(p)
  \/ \E p \in Procs : AxPostFail(p)

Next == NextLogic \/ NextAxios

InitLogic == Init /\ lib = "logic"
InitAxios == Init /\ lib = "axios"

\* either client
Spec == Init /\ [][Next]_vars
\* the client of part_001
SpecLogic == InitLogic /\ [][NextLogic]_vars
\* the client of mpesa.ts
SpecAxios == InitAxios /\ [][NextAxios]_vars


\* ----------------------------------------------------------------- claims
Invoked(p) == pc[p] = "idle" /\ pc'[p] # "idle"
NGets(reqs) == Cardinality({i \in DOMAIN reqs : reqs[i].method = "GET"})
NPosts(reqs) == Cardinality({i \in DOMAIN reqs : reqs[i].method = "POST"})
Fetched(p) == tokenReply[p].arrived /\ tokenReply[p].ok
FetchFailed(p) == tokenReply[p].arrived /\ ~tokenReply[p].ok
Posted(p) == postReply[p].arrived /\ postReply[p].ok
PostFailed(p) == postReply[p].arrived /\ ~postReply[p].ok
\* until when the token the client holds is good
CachedExpiry == IF lib = "logic" THEN ToInstant(expiryDate) ELSE grantedUntil

\* C1: an operation invoked while the token the client holds has not expired
\* issues no token request and leaves the cached token and expiry as they
\* were.
C1_TokenReuse ==
  [][\A p \in Procs :
       (Invoked(p) /\ now < CachedExpiry)
         => /\ NGets(http'[p]) = 0
            /\ accessToken' = accessToken
            /\ expiryDate' = expiryDate]_vars

\* C2: an operation invoked when the cached token has expired issues one
\* token request and never a second; when the request succeeds, the cached
\* token is the response's access_token and the cached expiry is the time of
\* the response plus the response's expires_in.
C2_TokenRefresh ==
  [][\A p \in Procs :
       /\ (Invoked(p) /\ ~(now < ToInstant(expiryDate)))
            => (Len(http'[p]) = 1 /\ http'[p][1].method = "GET")
       /\ NGets(http'[p]) <= 1
       /\ (pc[p] = "token" /\ pc'[p] # "token" /\ tokenReply'[p].ok)
            => /\ accessToken' = tokenReply'[p].data.access_token
               /\ ToInstant(expiryDate') = now + tokenReply'[p].data.expires_in
               /\ NGets(http'[p]) = 1]_vars

C2_Witness ==
  \E p \in Procs :
    /\ Fetched(p)
    /\ tokenReply[p].data.expires_in = MaxTTL
    /\ accessToken = tokenReply[p].data.access_token
    /\ now >= 1
    /\ ToInstant(expiryDate) = now + MaxTTL
    /\ NGets(http[p]) = 1

\* C3: simulate on a production client is rejected before any request is
\* issued, neither the token GET nor the POST.
C3_SimulateRejected ==
  \A p \in Procs :
    (op[p] = "c2bSimulateTransaction" /\ environment = "production")
      => (http[p] = <<>> /\ promise[p].state = "rejected")

\* C4: the promise of an operation settles only once its requests have
\* settled, fulfilled with the provider's data after a successful POST and
\* rejected with a DarajaError otherwise.
C4_ResultReturned ==
  \A p \in Procs :
    /\ promise[p].state # "pending" => pc[p] = "done"
    /\ pc[p] = "done" =>
         IF Posted(p)
           THEN promise[p].state = "fulfilled" /\ promise[p].value # Nothing
           ELSE promise[p].state = "rejected"
                /\ promise[p].reason.name = "DarajaError"

\* C5: every POST carries Authorization: Bearer <token>, the token being the
\* access_token of a successful token response.
C5_BearerToken ==
  \A p \in Procs : \A i \in DOMAIN http[p] :
    http[p][i].method = "POST" =>
      /\ http[p][i].auth.scheme = "Bearer"
      /\ \E q \in Procs :
           Fetched(q) /\ http[p][i].auth.cred = tokenReply[q].data.access_token

\* C6: when the token endpoint answers with a non-success status, the
\* operation is rejected with a DarajaError whose message is the status
\* message.
C6_TokenErrorSurfaced ==
  \A p \in Procs :
    (FetchFailed(p) /\ tokenReply[p].failure.kind = "status")
      => promise[p] = Rejected(DarajaError(tokenReply[p].failure.statusMessage))

\* the result the documented response fields give for an operation
DocumentedResult(o, data) ==
  CASE o = "mpesaExpressRequest" ->
         [ merchantRequestId |-> data.MerchantRequestID,
           checkoutRequestId |-> data.CheckoutRequestID ]
    [] o = "mpesaExpressQuery" ->
         [ resultCode |-> data.ResultCode, resultDescription |-> data.ResultDesc ]
    [] o = "c2bRegisterUrl" ->
         [ responseDescription |-> data.ResponseDescription ]
    [] OTHER ->
         [ conversationId |-> data.ConversationID,
           originatorConversationId |-> data.OriginatorConversationID,
           responseDescription |-> data.ResponseDescription ]

\* C7: the result of every operation carries the documented fields of the
\* provider's success response under their result names.
C7_ResponseMapping ==
  \A p \in Procs :
    Posted(p) => promise[p] = Fulfilled(DocumentedResult(op[p], postReply[p].data))

PasswordPaths == {"/mpesa/stkpush/v1/processrequest", "/mpesa/stkpushquery/v1/query"}

\* C8: in every push-payment request and push-payment query, Password is
\* base64 of shortcode, passkey and the Timestamp of the same request.
C8_PasswordDerived ==
  \A p \in Procs : \A i \in DOMAIN http[p] :
    (http[p][i].method = "POST" /\ http[p][i].path \in PasswordPaths) =>
      http[p][i].body.Password =
        ToBase64(DecStr(http[p][i].body.BusinessShortCode) \o passkey
                 \o http[p][i].body.Timestamp)

\* C9: when several operations fetch a token, each stores what it fetched and
\* the cache holds the pair of the one whose fetch completed last.
C9_LastWriterWins ==
  lastFetch # 0 =>
    /\ accessToken = local[lastFetch].accessToken
    /\ expiryDate = local[lastFetch].expiryDate
    /\ accessToken = tokenReply[lastFetch].data.access_token

\* two operations were waiting for a token at once, got different ones, and
\* the one called first was answered last
C9_Witness ==
  /\ MaxOps >= 2
  /\ Fetched(1) /\ Fetched(2)
  /\ tokenReply[1].data.access_token # tokenReply[2].data.access_token
  /\ lastFetch = 1
  /\ accessToken = tokenReply[1].data.access_token
  /\ NGets(http[1]) = 1 /\ NGets(http[2]) = 1

CredentialOps == { "b2cPaymentRequest", "accountBalanceRequest",
                   "transactionStatusRequest", "reversalRequest" }
\* the logic call of invocation p throws before it reaches the network
ThrowsLocally(p) ==
  \/ op[p] = "c2bSimulateTransaction" /\ environment # "sandbox"
  \/ op[p] \in CredentialOps /\ ~certOk

\* C10 as stated: at most one token GET per invocation, exactly one POST once
\* the token step has succeeded, and no request after a failed one.
C10_NoRetries ==
  \A p \in Procs :
    /\ NGets(http[p]) <= 1
    /\ local[p].t = "pair" => NPosts(http[p]) = 1
    /\ FetchFailed(p) => Len(http[p]) = 1
    /\ PostFailed(p) => (NPosts(http[p]) = 1 /\ http[p][Len(http[p])].method = "POST")

\* C10 amended: at most one token GET per invocation; once the token step
\* has succeeded, exactly one POST unless the logic call throws before the
\* request, and then none; no request after a failed one.
C10_NoRetriesAmended ==
  \A p \in Procs :
    /\ NGets(http[p]) <= 1
    /\ local[p].t = "pair" =>
         NPosts(http[p]) = IF ThrowsLocally(p) THEN 0 ELSE 1
    /\ FetchFailed(p) => Len(http[p]) = 1
    /\ PostFailed(p) => (NPosts(http[p]) = 1 /\ http[p][Len(http[p])].method = "POST")

C10_Witness ==
  \E p \in Procs :
    /\ op[p] = "b2cPaymentRequest"
    /\ Fetched(p)
    /\ PostFailed(p)
    /\ pc[p] = "done"
    /\ Len(http[p]) = 2

\* the host prefix the environment selects
EnvHost == IF environment = "production" THEN "api" ELSE "sandbox"
SimulatePath == "/mpesa/c2b/v1/simulate"

\* C11: the token request and the POST of every operation but simulate go to
\* 'api' on production and to 'sandbox' otherwise, so that the two requests of
\* one such invocation go to the same host; a simulate POST goes to 'sandbox'.
C11_HostSelection ==
  \A p \in Procs :
    /\ \A i \in DOMAIN http[p] :
         http[p][i].host =
           IF http[p][i].method = "POST" /\ http[p][i].path = SimulatePath
             THEN "sandbox" ELSE EnvHost
    /\ op[p] # "c2bSimulateTransaction" =>
         \A i, j \in DOMAIN http[p] : http[p][i].host = http[p][j].host

\* a production client has sent the token request and the POST of an
\* operation, both to 'api'
C11_Witness ==
  \E p \in Procs :
    /\ environment = "production"
    /\ op[p] = "c2bRegisterUrl"
    /\ Len(http[p]) = 2
    /\ http[p][1].method = "GET" /\ http[p][1].host = "api"
    /\ http[p][2].method = "POST" /\ http[p][2].host = "api"

\* the fields each endpoint is documented to take
InitiatorFields ==
  { "CommandID", "Initiator", "SecurityCredential", "Remarks",
    "QueueTimeOutURL", "ResultURL" }
DocumentedFields(path) ==
  CASE path = "/mpesa/stkpush/v1/processrequest" ->
         { "BusinessShortCode", "Password", "Timestamp", "TransactionType",
           "Amount", "PartyA", "PartyB", "PhoneNumber", "CallBackURL",
           "AccountReference", "TransactionDesc" }
    [] path = "/mpesa/stkpushquery/v1/query" ->
         { "BusinessShortCode", "Password", "Timestamp", "CheckoutRequestID" }
    [] path = "/mpesa/c2b/v1/registerurl" ->
         { "ValidationURL", "ConfirmationURL", "ResponseType", "ShortCode" }
    [] path = SimulatePath ->
         { "Amount", "BillRefNumber", "CommandID", "Msisdn", "ShortCode" }
    [] path = "/mpesa/b2c/v1/paymentrequest" ->
         { "InitiatorName", "SecurityCredential", "CommandID", "Amount",
           "PartyA", "PartyB", "Remarks", "QueueTimeOutURL", "ResultURL",
           "Occassion" }
    [] path = "/mpesa/accountbalance/v1/query" ->
         InitiatorFields \cup { "PartyA", "IdentifierType" }
    [] path = "/mpesa/transactionstatus/v1/query" ->
         InitiatorFields \cup { "PartyA", "IdentifierType", "TransactionID", "Occasion" }
    [] path = "/mpesa/reversal/v1/request" ->
         InitiatorFields \cup { "ReceiverParty", "ReceiverIdentifierType",
                                "TransactionID", "Occasion" }

\* C12: the body of every POST has the documented fields of its endpoint and
\* no others; a reversal carries ReceiverIdentifierType 11 and neither PartyA
\* nor IdentifierType.
C12_BodyFields ==
  \A p \in Procs : \A i \in DOMAIN http[p] :
    http[p][i].method = "POST" =>
      /\ DOMAIN http[p][i].body = DocumentedFields(http[p][i].path)
      /\ http[p][i].path = "/mpesa/reversal/v1/request" =>
           /\ http[p][i].body.ReceiverIdentifierType = 11
           /\ {"PartyA", "IdentifierType"} \cap DOMAIN http[p][i].body = {}

StatusFailures == { f \in Failures : f.kind = "status" }
\* the request got no response
NoResponse(reply) == reply.arrived /\ ~reply.ok /\ reply.failure.kind = "network"
\* the errors a caller gets when the provider answers with a non-success
\* status, to the token request and to the POST
TokenRejections == { DarajaError(TokenErrorMessage(f)) : f \in StatusFailures }
PostRejections == { DarajaError(PostErrorMessage(f)) : f \in StatusFailures }

\* C13: when the token request or the POST of an operation gets no response,
\* the operation is rejected with an error that is not one a non-success
\* status gives.
C13_NetworkErrorDistinct ==
  \A p \in Procs :
    /\ NoResponse(tokenReply[p]) =>
         /\ promise[p].state = "rejected"
         /\ promise[p].reason \notin TokenRejections
    /\ NoResponse(postReply[p]) =>
         /\ promise[p].state = "rejected"
         /\ promise[p].reason \notin PostRejections

\* C14: when the certificate cannot be used, an operation that sends a
\* SecurityCredential issues no POST and ends rejected with a DarajaError,
\* which is the certificate's error once the token step has succeeded.
C14_CredentialFailure ==
  \A p \in Procs :
    (op[p] \in CredentialOps /\ ~certOk) =>
      /\ NPosts(http[p]) = 0
      /\ pc[p] = "done" =>
           /\ promise[p].state = "rejected"
           /\ promise[p].reason.name = "DarajaError"
      /\ local[p].t = "pair" => promise[p] = Rejected(DarajaError(CertError))

\* C15: an invocation issues its POST only once its token step is over, after
\* the answer to its token request when it made one, and issues no POST when
\* that request failed.
C15_TokenBeforePost ==
  \A p \in Procs :
    /\ \A i \in DOMAIN http[p] :
         http[p][i].method = "POST" =>
           /\ local[p] # NoToken
           /\ \A j \in DOMAIN http[p] :
                http[p][j].method = "GET" => (j < i /\ tokenReply[p].arrived)
    /\ FetchFailed(p) => NPosts(http[p]) = 0

\* C16: an operation takes the cached token, issuing no token request, if and
\* only if it is invoked strictly before the cached expiry; invoked at the
\* instant of the expiry, it issues a token request.
C16_ValidityBoundary ==
  [][\A p \in Procs :
       Invoked(p) =>
         /\ (now < ToInstant(expiryDate)) <=> (NGets(http'[p]) = 0)
         /\ (now = ToInstant(expiryDate)) => (pc'[p] = "token" /\ NGets(http'[p]) = 1)]_vars

\* An operation waits for a token and nothing was stored since construction:
\* the expiry is the midnight before the construction, the clock has not
\* moved since, so the operation was invoked at the instant of the expiry.
C16_Witness ==
  \E p \in Procs :
    /\ pc[p] = "token"
    /\ lastFetch = 0
    /\ now = ToInstant(expiryDate)
    /\ NGets(http[p]) = 1

\* C17: an operation invoked while the client still holds the empty token of
\* its construction issues a token request, whatever the time of day, and no
\* POST carries the empty token.
C17_FirstCallFetches ==
  [][/\ \A p \in Procs :
          (Invoked(p) /\ accessToken = "") =>
            (pc'[p] = "token" /\ NGets(http'[p]) = 1 /\ NPosts(http'[p]) = 0)
     /\ \A p \in Procs : \A i \in DOMAIN http'[p] :
          http'[p][i].method = "POST" => http'[p][i].auth.cred # ""]_vars

\* the first operation on a client, invoked after midnight, waits for its
\* token
C17_Witness ==
  \E p \in Procs :
    /\ pc[p] = "token"
    /\ \A q \in Procs \ {p} : pc[q] = "idle"
    /\ accessToken = ""
    /\ TimeOfDay(now) # 0
    /\ now > ToInstant(expiryDate)
    /\ NGets(http[p]) = 1 /\ NPosts(http[p]) = 0

\* C18: an operation whose token request fails writes nothing to the cached
\* token and expiry, neither when it issues the request nor when the request
\* fails; an operation invoked after such a failure, no token having been
\* stored, finds the token expired and issues a token request.
C18_FailedFetchKeepsCache ==
  [][\A p \in Procs :
       /\ (Invoked(p) /\ pc'[p] = "token")
            => (accessToken' = accessToken /\ expiryDate' = expiryDate)
       /\ (pc[p] = "token" /\ FetchFailed(p)')
            => (accessToken' = accessToken /\ expiryDate' = expiryDate)
       /\ (Invoked(p) /\ lastFetch = 0 /\ \E q \in Procs : FetchFailed(q))
            => (pc'[p] = "token" /\ NGets(http'[p]) = 1)]_vars

\* the token request of the first operation has failed, the cache is as the
\* constructor left it, and the next operation waits for a token
C18_Witness ==
  /\ MaxOps >= 2
  /\ FetchFailed(1) /\ pc[1] = "done"
  /\ lastFetch = 0 /\ accessToken = ""
  /\ pc[2] = "token" /\ NGets(http[2]) = 1

\* C19: in every reachable state the cached token and the cached expiry are
\* the two halves of one result: what the constructor stored, or the pair one
\* operation built from the answer to its token request.
C19_PairFromOneResult ==
  \/ /\ lastFetch = 0
     /\ accessToken = ""
     /\ expiryDate.t = "string"
  \/ \E q \in Procs :
       /\ Fetched(q)
       /\ accessToken = tokenReply[q].data.access_token
       /\ accessToken = local[q].accessToken
       /\ expiryDate = local[q].expiryDate

\* two operations have fetched different tokens with different expiries, and
\* the cache holds the pair of the second
C19_Witness ==
  /\ MaxOps >= 2
  /\ Fetched(1) /\ Fetched(2)
  /\ local[1].accessToken # local[2].accessToken
  /\ local[1].expiryDate # local[2].expiryDate
  /\ lastFetch = 2
  /\ accessToken = local[2].accessToken
  /\ expiryDate = local[2].expiryDate

\* what the token step of invocation p returned, as a POST would carry it
OwnToken(p) == IF lib = "logic" THEN local[p].accessToken ELSE ToStr(local[p])

C21_PartyB ==
  \A p \in Procs : \A i \in DOMAIN http[p] :
    (http[p][i].method = "POST"
       /\ http[p][i].path = "/mpesa/stkpush/v1/processrequest") =>
      http[p][i].body.PartyB =
        IF config.headoffice # 0 THEN config.headoffice ELSE config.shortcode

====
